---- MODULE Spec2Model ----
(***************************************************************************)
(* Feature extraction pipeline, feature store and similarity index of the  *)
(* music library profiler.                                                 *)
(*                                                                         *)
(*   core/audio_feature_extractor.py  find_features_of_list, _store_batch  *)
(*   core/database.py                 track_features / track_metadata      *)
(*   core/track_similarity.py         _initialize_faiss, index_features,   *)
(*                                    find_similar_tracks_to and the       *)
(*                                    create_playlist_* operations         *)
(*   widgets/scan_window.py           the scan thread                      *)
(*   main_window.py                   playlist queries on the UI thread    *)
(*                                                                         *)
(* The per-file extraction function (find_features_of_file) is taken       *)
(* through its contract: a future yields a Features value with a           *)
(* 12-element hpcp and a GENRE_DIMENSION-element genre ("ok"), yields None *)
(* ("null"), or raises ("exc").  Reads of the sqlite store succeed; the    *)
(* batch write may fail with sqlite3.Error, which rolls the whole          *)
(* transaction back.                                                       *)
(*                                                                         *)
(* A faiss IndexIDMap keeps its (id, vector) entries in insertion order    *)
(* and accepts the same id any number of times.  The order only decides    *)
(* between equal distances in a search; the pipeline never reads it, so an *)
(* index is modelled as the bag of the ids it holds.  For the same reason  *)
(* current_feature_batch, a dict keyed by track_id, is the set of its keys. *)
(* A search reads the entries of an index in ascending id order, the order *)
(* in which the bootstrap inserts them (track_id is the INTEGER PRIMARY KEY *)
(* of track_features).                                                     *)
(*                                                                         *)
(* A feature vector is abstracted to one coordinate per feature space: the *)
(* hpcp vector is a point of a line, the genre embedding a point of a      *)
(* second line, and the faiss L2 distance is the squared difference.       *)
(* Coordinates are multiples of Unit so that the synthetic targets of the  *)
(* walks are exact.  Similarities 1/(1+d) are kept in fixed point.         *)
(***************************************************************************)
EXTENDS Integers, Sequences, FiniteSets, Bags, TLC

\* ------------------------------------------------------------------ bounds
MaxPaths  == 5      \* files known to the model (paths 1..MaxPaths)
LibTracks == 3      \* rows of track_metadata in a profiling session
MaxBatch  == 2      \* largest batch_size passed to find_features_of_list
MaxPos    == 1      \* feature coordinates are 0..MaxPos (in units of Unit)
MaxSteps  == 2      \* largest num_tracks of a walk
MaxK      == 2      \* largest num_tracks of a nearest-neighbour query
MaxInputs == 2      \* longest track_paths list of a multi-track playlist
MaxSim    == 3      \* similarity values handed to get_weighted_score
QueryTracks == 3    \* rows of track_metadata when playlists are generated
AddTracks == 2      \* ids index_features is called with directly
MaxItems  == 11     \* most items (futures of a run, steps of a walk) of an
                    \*   operation whose progress callbacks are looked at
WideTracks == 4     \* tracks of the library in which a walk between two
                    \*   distinct tracks can place two others
MaxWalk   == 14     \* most steps of a walk whose search widths are looked at
MaxCopies == 2      \* entries per id after which index_features is not
                    \*   called again with that id

\* ------------------------------------------------------------- data model
\* File paths.  Path 0 is a file that never has a row in track_metadata.
Paths == 0..MaxPaths

\* track_metadata.id of the row of path p (AUTOINCREMENT key, distinct from
\* the path itself).
TrackIdOf(p) == p + MaxPaths + 1

PathOfId(t) == t - (MaxPaths + 1)

TrackIds == {TrackIdOf(p) : p \in 1..MaxPaths}

\* A row of track_features: absent, present with genre_data NULL, or with
\* hpcp_data, bpm_data and genre_data all non-NULL.
RowStates == {"none", "partial", "complete"}

Outcomes == {"ok", "null", "exc"}

VARIABLES
    track_metadata,        \* set of paths that have a track_metadata row
    track_features,        \* [TrackIds -> RowStates], the track_features table
    hpcp_index,            \* bag of the ids held by hpcp_index
    genre_index,           \* bag of the ids held by genre_index
    pc,                    \* position of the extraction thread
    final,                 \* TRUE in the flush after the loop (line 123)
    track_list,            \* AudioFeatureExtractor.track_list
    batch_size,            \* batch_size argument
    futures,               \* future_to_id: id -> "pending" or its outcome
    current_feature_batch, \* keys of the dict current_feature_batch
    track_id,              \* track_id of the loop iteration in progress
    successful_tracks,     \* return value of batch_insert_features
    errors,                \* errors list
    successful_files,      \* successful_files set
    flush_sizes,           \* history: len(feature_batch) of every _store_batch
                           \*   call of the run, in call order
    flushed,               \* history: bag of the ids of those batches
    stored_new,            \* history: ids the run's upserts wrote
    upsert_called,         \* history: ids handed to batch_insert_features
                           \*   in the _store_batch call in progress
    pre,                   \* history: store and indexes when the run began
    search_at,             \* history: what the last index search ran into
    feature_data,          \* the Features of every file: what the extractor
                           \*   computes for it and what its row and its
                           \*   index entries hold
    call                   \* history: the last call of index_features, of
                           \*   find_similar_tracks_to or of a playlist
                           \*   operation, with its arguments and its result

vars == <<track_metadata, track_features, hpcp_index, genre_index, pc, final,
          track_list, batch_size, futures, current_feature_batch, track_id,
          successful_tracks, errors, successful_files, flush_sizes, flushed,
          stored_new, upsert_called, pre, search_at, feature_data, call>>

\* the variables the extraction pipeline never writes
query_vars == <<feature_data, call>>

\* ---------------------------------------------------------------- helpers
\* number of entries an index holds for id x
Occurrences(index, x) == CopiesIn(x, index)

\* the ids an index holds
IdsOf(index) == BagToSet(index)

\* ----------------------------------------------------------- feature space
HPCP_DIMENSION == 12

GENRE_DIMENSION == 1280

RECURSIVE Gcd(_, _)
Gcd(a, b) == IF b = 0 THEN a ELSE Gcd(b, a % b)

RECURSIVE LcmUpTo(_)
LcmUpTo(n) == IF n <= 1 THEN 1
              ELSE LET l == LcmUpTo(n - 1) IN (l * n) \div Gcd(l, n)

\* One coordinate step.  A walk of n steps divides coordinate differences by
\* n and by n + 1; with coordinates that are multiples of Unit the quotients
\* are integers.
Unit == LcmUpTo(MaxSteps + 1)

Abs(x) == IF x < 0 THEN -x ELSE x

\* Python's None where a track id is expected, and the label faiss returns
\* for a result slot it could not fill (fewer than k vectors in the index).
NoneId == -2

NotFound == -1

\* The distance faiss reports for an unfilled result slot (FLT_MAX).
FLT_MAX == 1000000

\* None where a Features value is expected (a real bpm is positive).
NoFeatures == [hpcp |-> 0, bpm |-> 0, genre |-> 0]

\* bpm of the file at path p
TempoOf(p) == <<120, 122, 140>>[((p - 1) % 3) + 1]

\* The Features of the files: hpcp coordinate a[p] for the files of lib,
\* genre coordinate equal to it or mirrored (the two spaces then hold
\* different vectors at the same distances from each other).
FeaturesOf(lib, a, mirrored) ==
    [t \in TrackIds |->
        LET p == PathOfId(t)
            x == IF p \in lib THEN a[p] ELSE 0
        IN  [hpcp |-> Unit * x,
             bpm |-> TempoOf(p),
             genre |-> Unit * (IF mirrored THEN MaxPos - x ELSE x)]]

FeatureLayouts(lib) ==
    {FeaturesOf(lib, a, m) : a \in [lib -> 0..MaxPos], m \in BOOLEAN}

\* The files of the extraction specifications: file p at coordinate
\* p modulo (MaxPos + 1) in both spaces.
FilesFeatures ==
    FeaturesOf(1..MaxPaths, [p \in 1..MaxPaths |-> p % (MaxPos + 1)], FALSE)

NoCall == [op |-> "none"]

\* ------------------------------------------------------------ FeatureStore
\* Database.get_track_ids_by_paths: {file_path: track_id} of the paths that
\* have a row; paths without a row are simply not in the result.
get_track_ids_by_paths(file_paths) ==
    [p \in file_paths \cap track_metadata |-> TrackIdOf(p)]

\* Database.get_missing_features: (missing, found) where found are the ids
\* whose row has hpcp_data, bpm_data and genre_data all NOT NULL.
get_missing_features_AllMissing(ids) == <<ids, {}>>

get_missing_features_AnyRow(ids) ==
    LET found_ids == {t \in ids : track_features[t] # "none"}
    IN  <<ids \ found_ids, found_ids>>

get_missing_features(ids) ==
    LET found_ids == {t \in ids : track_features[t] = "complete"}
    IN  <<ids \ found_ids, found_ids>>

\* Database.batch_insert_features, success: INSERT OR REPLACE of every row of
\* the batch in one transaction.
RowsAfterInsert(batch) ==
    [t \in TrackIds |-> IF t \in batch THEN "complete"
                        ELSE track_features[t]]

\* Database.get_all_features followed by TrackSimilarity._initialize_faiss:
\* every row is decoded; np.frombuffer on a NULL genre_data raises, the
\* handler returns None and index_features(None) indexes nothing.
Bootstrap(rows) ==
    LET present == {t \in TrackIds : rows[t] # "none"}
    IN  IF \E t \in present : rows[t] = "partial" THEN EmptyBag
        ELSE SetToBag(present)

\* --------------------------------------------------------- SimilarityIndex
\* index_features line 355: hpcp_index.add_with_ids(embeddings, ids)
HpcpAfterAdd(index, batch) == index (+) SetToBag(batch)

\* index_features line 356: genre_index.add_with_ids(embeddings, ids)
GenreAfterAdd_Skipped(index, batch) == index

GenreAfterAdd(index, batch) == index (+) SetToBag(batch)

\* ---------------------------------------------------------------- pipeline
\* error entries: the message kind and the file it names (-1: none)
ErrNoMapping   == [kind |-> "no_mapping", ref |-> -1]
ErrNoData(p)   == [kind |-> "no_data", ref |-> p]
ErrProcessing(p) == [kind |-> "error", ref |-> p]

\* lines 98-107: the batch after one future's result
BatchAfterResult_Dropped(batch, t, out) ==
    IF out = "ok" THEN batch \cup {t} ELSE {}

BatchAfterResult(batch, t, out) ==
    IF out = "ok" THEN batch \cup {t} ELSE batch

\* lines 104-106 and 116-118: the errors list after one future's result
ErrorsAfterResult(errs, t, out) ==
    CASE out = "ok"   -> errs
      [] out = "null" -> Append(errs, ErrNoData(PathOfId(t)))
      [] out = "exc"  -> Append(errs, ErrProcessing(PathOfId(t)))

\* line 109: the flush condition
BatchFull_Strict(batch, size) == Cardinality(batch) > size

BatchFull(batch, size) == Cardinality(batch) >= size

\* lines 112 and 126: "successful_files | stored_in_batch" builds the union
\* and discards it; successful_files itself is not changed.
MergeStored(successful, stored) == successful

\* The order of the two calls of _store_batch (lines 153, 154) and of the two
\* adds inside index_features (lines 355, 356).
StoreBatchSteps_IndexFirst == <<"add_hpcp", "insert", "add_genre">>

StoreBatchSteps == <<"insert", "add_hpcp", "add_genre">>

StepAfter(step) ==
    LET i == CHOOSE k \in 1..Len(StoreBatchSteps) : StoreBatchSteps[k] = step
    IN  IF i = Len(StoreBatchSteps) THEN "return" ELSE StoreBatchSteps[i + 1]

Pending(f) == {t \in DOMAIN f : f[t] = "pending"}

\* Where the thread goes once an iteration of the loop is over: the next
\* future, or past the loop to the straggler flush of line 123.
AfterIteration(f, batch) ==
    IF Pending(f) # {} THEN "loop"
    ELSE IF batch # {} THEN "final" ELSE "done"

\* ------------------------------------------------------------------- Init
NoSearch == [seen |-> FALSE, adding |-> FALSE, torn |-> FALSE]

\* The state after MainWindow.__init__: Database(), then TrackSimilarity()
\* bootstraps both indexes from the store.  lib is the content of
\* track_metadata, rows the content of track_features.
InitOf(lib, rows, data) ==
    /\ track_metadata = lib
    /\ track_features = rows
    /\ hpcp_index = Bootstrap(rows)
    /\ genre_index = Bootstrap(rows)
    /\ pc = "idle"
    /\ final = FALSE
    /\ track_list = {}
    /\ batch_size = 1
    /\ futures = << >>
    /\ current_feature_batch = {}
    /\ track_id = 0
    /\ successful_tracks = [none |-> TRUE, ids |-> {}]
    /\ errors = <<>>
    /\ successful_files = {}
    /\ flush_sizes = <<>>
    /\ flushed = EmptyBag
    /\ stored_new = {}
    /\ upsert_called = {}
    /\ pre = [store |-> rows, hpcp |-> Bootstrap(rows),
              genre |-> Bootstrap(rows)]
    /\ search_at = NoSearch
    /\ feature_data = data
    /\ call = NoCall

InitWith(lib, rows) == InitOf(lib, rows, FilesFeatures)

\* track_features.track_id references track_metadata.id: only tracks of the
\* library have a row.  batch_insert_features, the only writer, writes
\* complete rows; a row with genre_data NULL is one left by insert_feature,
\* and the stores enumerated have it on the first track only.
StoresOf(lib) ==
    {rows \in [TrackIds -> RowStates] :
        \A t \in TrackIds :
            /\ PathOfId(t) \notin lib => rows[t] = "none"
            /\ rows[t] = "partial" => PathOfId(t) = 1}

Init == \E rows \in StoresOf(1..LibTracks) : InitWith(1..LibTracks, rows)

\* ---------------------------------------------------------------- actions
\* find_features_of_list lines 56-91: resolve, split, submit.
Start(list, size) ==
    /\ pc = "idle"
    /\ track_list' = list
    /\ batch_size' = size
    /\ pre' = [store |-> track_features, hpcp |-> hpcp_index,
               genre |-> genre_index]
    /\ LET track_mapping == get_track_ids_by_paths(list)
           ids == {track_mapping[p] : p \in DOMAIN track_mapping}
           split == get_missing_features(ids)
           missing_features == split[1]
           existing_features == split[2]
       IN  IF DOMAIN track_mapping = {}
           THEN /\ pc' = "done"
                /\ successful_files' = {}
                /\ errors' = <<ErrNoMapping>>
                /\ futures' = << >>
           ELSE IF missing_features = {}
           THEN /\ pc' = "done"
                /\ successful_files' = existing_features
                /\ errors' = <<>>
                /\ futures' = << >>
           ELSE /\ pc' = "loop"
                /\ successful_files' = existing_features
                /\ errors' = <<>>
                /\ futures' = [t \in missing_features |-> "pending"]
    /\ final' = FALSE
    /\ current_feature_batch' = {}
    /\ track_id' = 0
    /\ successful_tracks' = [none |-> TRUE, ids |-> {}]
    /\ flush_sizes' = <<>>
    /\ flushed' = EmptyBag
    /\ stored_new' = {}
    /\ upsert_called' = {}
    /\ UNCHANGED <<track_metadata, track_features, hpcp_index, genre_index,
                   search_at>>
    /\ UNCHANGED query_vars

\* lines 93-120: one future completes (any pending one, in any order).
Complete(t, out) ==
    /\ pc = "loop"
    /\ t \in Pending(futures)
    /\ futures' = [futures EXCEPT ![t] = out]
    /\ track_id' = t
    /\ current_feature_batch' = BatchAfterResult(current_feature_batch, t, out)
    /\ errors' = ErrorsAfterResult(errors, t, out)
    /\ IF out # "exc" /\ BatchFull(current_feature_batch', batch_size)
       THEN /\ pc' = StoreBatchSteps[1]
            /\ final' = FALSE
       ELSE LET nxt == AfterIteration(futures', current_feature_batch')
            IN  /\ pc' = IF nxt = "final" THEN StoreBatchSteps[1] ELSE nxt
                /\ final' = (nxt = "final")
    /\ UNCHANGED <<track_metadata, track_features, hpcp_index, genre_index,
                   track_list, batch_size, successful_tracks, successful_files,
                   flush_sizes, flushed, stored_new, upsert_called, pre,
                   search_at>>
    /\ UNCHANGED query_vars

\* _store_batch line 153: batch_insert_features.  ok = FALSE is a
\* sqlite3.Error: nothing is written and None is returned.
Insert(ok) ==
    /\ pc = "insert"
    /\ track_features' = IF ok THEN RowsAfterInsert(current_feature_batch)
                         ELSE track_features
    /\ successful_tracks' = IF ok
                            THEN [none |-> FALSE,
                                  ids |-> current_feature_batch]
                            ELSE [none |-> TRUE, ids |-> {}]
    /\ stored_new' = IF ok THEN stored_new \cup current_feature_batch
                     ELSE stored_new
    /\ upsert_called' = current_feature_batch
    /\ flush_sizes' = Append(flush_sizes, Cardinality(current_feature_batch))
    /\ flushed' = flushed (+) SetToBag(current_feature_batch)
    /\ pc' = StepAfter("insert")
    /\ UNCHANGED <<track_metadata, hpcp_index, genre_index, final, track_list,
                   batch_size, futures, current_feature_batch, track_id,
                   errors, successful_files, pre, search_at>>
    /\ UNCHANGED query_vars

\* lines 155-160 and 111-120 (in the loop) or 125-140 (after it): what
\* follows the last step of _store_batch.
Return ==
    IF successful_tracks.none
    THEN \* len(None) raises TypeError
         IF final
         THEN /\ pc' = "raised"
              /\ UNCHANGED <<errors, successful_files, current_feature_batch,
                             final>>
         ELSE LET nxt == AfterIteration(futures, current_feature_batch)
              IN  /\ errors' = Append(errors, ErrProcessing(PathOfId(track_id)))
                  /\ pc' = IF nxt = "final" THEN StoreBatchSteps[1] ELSE nxt
                  /\ final' = (nxt = "final")
                  /\ UNCHANGED <<successful_files, current_feature_batch>>
    ELSE /\ successful_files' = MergeStored(successful_files,
                                            successful_tracks.ids)
         /\ IF final
            THEN /\ pc' = "done"
                 /\ UNCHANGED <<current_feature_batch, final>>
            ELSE /\ current_feature_batch' = {}
                 /\ pc' = AfterIteration(futures, {})
                 /\ final' = FALSE
         /\ UNCHANGED errors

\* index_features line 355
AddHpcp ==
    /\ pc = "add_hpcp"
    /\ hpcp_index' = HpcpAfterAdd(hpcp_index, current_feature_batch)
    /\ IF StepAfter("add_hpcp") = "return"
       THEN /\ Return
            /\ upsert_called' = {}
       ELSE /\ pc' = StepAfter("add_hpcp")
            /\ UNCHANGED <<errors, successful_files, current_feature_batch,
                           final, upsert_called>>
    /\ UNCHANGED <<track_metadata, track_features, genre_index, track_list,
                   batch_size, futures, track_id, successful_tracks,
                   flush_sizes, flushed, stored_new, pre, search_at>>
    /\ UNCHANGED query_vars

\* index_features line 356, then the return of _store_batch
AddGenre ==
    /\ pc = "add_genre"
    /\ genre_index' = GenreAfterAdd(genre_index, current_feature_batch)
    /\ IF StepAfter("add_genre") = "return"
       THEN /\ Return
            /\ upsert_called' = {}
       ELSE /\ pc' = StepAfter("add_genre")
            /\ UNCHANGED <<errors, successful_files, current_feature_batch,
                           final, upsert_called>>
    /\ UNCHANGED <<track_metadata, track_features, hpcp_index, track_list,
                   batch_size, futures, track_id, successful_tracks,
                   flush_sizes, flushed, stored_new, pre, search_at>>
    /\ UNCHANGED query_vars

\* The process ends (a crash at any point of a run, or the application is
\* closed) and is started again.  The store is on disk and survives; the
\* indexes live in memory and are rebuilt from the store by
\* TrackSimilarity.__init__.
Restart ==
    /\ pc # "idle"
    /\ pc' = "idle"
    /\ hpcp_index' = Bootstrap(track_features)
    /\ genre_index' = Bootstrap(track_features)
    /\ final' = FALSE
    /\ track_list' = {}
    /\ batch_size' = 1
    /\ futures' = << >>
    /\ current_feature_batch' = {}
    /\ track_id' = 0
    /\ successful_tracks' = [none |-> TRUE, ids |-> {}]
    /\ errors' = <<>>
    /\ successful_files' = {}
    /\ flush_sizes' = <<>>
    /\ flushed' = EmptyBag
    /\ stored_new' = {}
    /\ upsert_called' = {}
    /\ pre' = [store |-> track_features, hpcp |-> Bootstrap(track_features),
               genre |-> Bootstrap(track_features)]
    /\ UNCHANGED <<track_metadata, track_features, search_at>>
    /\ UNCHANGED query_vars

\* MainWindow._on_track_added_to_request_list on the UI thread: a playlist
\* query searches hpcp_index and genre_index (find_similar_tracks_to lines
\* 276-277).  Nothing orders it against the scan thread.
Search ==
    /\ search_at' = [seen |-> TRUE,
                     adding |-> pc \in {"loop", "insert", "add_hpcp", "add_genre"}
                                /\ hpcp_index # pre.hpcp,
                     torn |-> hpcp_index # genre_index]
    /\ search_at' # search_at
    /\ UNCHANGED <<track_metadata, track_features, hpcp_index, genre_index,
                   pc, final, track_list, batch_size, futures,
                   current_feature_batch, track_id, successful_tracks, errors,
                   successful_files, flush_sizes, flushed, stored_new,
                   upsert_called,
                   pre>>
    /\ UNCHANGED query_vars

\* The track lists a scan is started with: any set of library files, and
\* lists that hold the file without a row, alone or next to a library file.
TrackLists ==
    (SUBSET track_metadata) \cup {{0}} \cup {{0, p} : p \in track_metadata}

StartAny ==
    \E list \in TrackLists, size \in 1..MaxBatch : Start(list, size)

CompleteAny == \E t \in TrackIds, out \in Outcomes : Complete(t, out)

InsertAny == \E ok \in BOOLEAN : Insert(ok)

Next ==
    \/ StartAny
    \/ CompleteAny
    \/ InsertAny
    \/ AddHpcp
    \/ AddGenre
    \/ Restart

Spec == Init /\ [][Next]_vars

\* The scan thread together with playlist queries of the UI thread.
NextQuery ==
    \/ Next
    \/ Search

SpecQuery == Init /\ [][NextQuery]_vars

\* A library of MaxPaths files without features, scanned in one run in which
\* every extraction succeeds, in any completion order; a store write may
\* still fail.
InitBatch ==
    InitWith(1..MaxPaths, [t \in TrackIds |-> "none"])

NextBatch ==
    \/ \E size \in 1..MaxBatch : Start(1..MaxPaths, size)
    \/ \E t \in TrackIds : Complete(t, "ok")
    \/ InsertAny
    \/ AddHpcp
    \/ AddGenre

SpecBatch == InitBatch /\ [][NextBatch]_vars

\* ------------------------------------------- index_features, any argument
\* The length of a vector of a feature_dict handed to index_features;
\* NoVector is None in place of the array.
NoVector == -1

\* a conformant entry, one with a long hpcp, one with a short genre and one
\* without genre
VectorLengths ==
    {[hpcp |-> HPCP_DIMENSION, genre |-> GENRE_DIMENSION],
     [hpcp |-> HPCP_DIMENSION + 1, genre |-> GENRE_DIMENSION],
     [hpcp |-> HPCP_DIMENSION, genre |-> GENRE_DIMENSION - 1],
     [hpcp |-> HPCP_DIMENSION, genre |-> NoVector]}

\* the ids index_features is called with
AddIds == {TrackIdOf(p) : p \in 1..AddTracks}

FeatureDicts ==
    UNION {[ids -> VectorLengths] : ids \in SUBSET AddIds}

\* lines 334-335: np.array(list, dtype=np.float32).  Arrays of one length
\* stack to a matrix with that many columns; arrays of different lengths, or
\* arrays next to None, raise ValueError; only None gives a one-dimensional
\* array, whose shape[1] raises IndexError in the validation.
Ragged == -2

Columns(lengths) ==
    IF Cardinality(lengths) # 1 THEN Ragged
    ELSE CHOOSE l \in lengths : TRUE

\* lines 339 and 343: the dimension checks
HpcpDimensionOk(columns) == columns = HPCP_DIMENSION

GenreDimensionOk_Any(columns) == TRUE

GenreDimensionOk(columns) == columns = GENRE_DIMENSION

\* index_features lines 323-353: what the call does with feature_dict.
\* The counts of lines 347 and 351 are equal by construction, ids and vectors
\* being the keys and the values of one dict.
index_features(feature_dict) ==
    LET hpcp_columns == Columns({feature_dict[t].hpcp : t \in DOMAIN feature_dict})
        genre_columns == Columns({feature_dict[t].genre : t \in DOMAIN feature_dict})
    IN  IF DOMAIN feature_dict = {} THEN "ignored"
        ELSE IF hpcp_columns = Ragged \/ genre_columns = Ragged THEN "raised"
        ELSE IF hpcp_columns = NoVector THEN "raised"
        ELSE IF ~HpcpDimensionOk(hpcp_columns) THEN "rejected"
        ELSE IF genre_columns = NoVector THEN "raised"
        ELSE IF ~GenreDimensionOk(genre_columns) THEN "rejected"
        ELSE "added"

\* One call of TrackSimilarity.index_features.
IndexFeatures(feature_dict) ==
    /\ pc = "idle"
    /\ \A t \in DOMAIN feature_dict : Occurrences(hpcp_index, t) < MaxCopies
    /\ LET status == index_features(feature_dict)
       IN  /\ hpcp_index' = IF status = "added"
                            THEN HpcpAfterAdd(hpcp_index, DOMAIN feature_dict)
                            ELSE hpcp_index
           /\ genre_index' = IF status = "added"
                             THEN GenreAfterAdd(genre_index, DOMAIN feature_dict)
                             ELSE genre_index
           /\ call' = [op |-> "index_features",
                       feature_dict |-> feature_dict,
                       status |-> status,
                       hpcp_before |-> hpcp_index,
                       genre_before |-> genre_index]
    /\ UNCHANGED <<track_metadata, track_features, pc, final, track_list,
                   batch_size, futures, current_feature_batch, track_id,
                   successful_tracks, errors, successful_files, flush_sizes,
                   flushed, stored_new, upsert_called, pre, search_at,
                   feature_data>>

InitAdd == InitWith(1..LibTracks, [t \in TrackIds |-> "none"])

NextAdd == \E feature_dict \in FeatureDicts : IndexFeatures(feature_dict)

SpecAdd == InitAdd /\ [][NextAdd]_vars

\* -------------------------------------------------------- store look-ups
\* Database.get_track_id_by_path
get_track_id_by_path(file_path) ==
    IF file_path \in track_metadata THEN TrackIdOf(file_path) ELSE NoneId

\* Database.get_track_metadata_by_id returns a row (not None)
HasMetadata(t) == t \in TrackIds /\ PathOfId(t) \in track_metadata

\* Database.get_feature_by_id: the Features of a complete row; None when
\* there is no row, and None when genre_data is NULL (np.frombuffer raises
\* and the handler returns None).
get_feature_by_id(t) ==
    IF t \in TrackIds /\ track_features[t] = "complete" THEN feature_data[t]
    ELSE NoFeatures

\* Database.get_features_by_ids: the ids among track_ids that have a row;
\* hpcp_data and bpm_data are read, genre_data is not.
get_features_by_ids(track_ids) ==
    {t \in track_ids \cap TrackIds : track_features[t] # "none"}

\* ---------------------------------------------------------- index search
\* the (id, copy) entries of an index
Entries(index) ==
    UNION {{<<t, c>> : c \in 1..Occurrences(index, t)} : t \in IdsOf(index)}

\* squared L2 distance (times Unit * Unit) of the vector of track t from the
\* query point q in one feature space
DistanceOf(space, t, q) ==
    (feature_data[t][space] - q) * (feature_data[t][space] - q)

\* e is reported before f
Nearer_Farthest(space, q, e, f) ==
    \/ DistanceOf(space, e[1], q) > DistanceOf(space, f[1], q)
    \/ /\ DistanceOf(space, e[1], q) = DistanceOf(space, f[1], q)
       /\ \/ e[1] < f[1]
          \/ e[1] = f[1] /\ e[2] <= f[2]

Nearer(space, q, e, f) ==
    \/ DistanceOf(space, e[1], q) < DistanceOf(space, f[1], q)
    \/ /\ DistanceOf(space, e[1], q) = DistanceOf(space, f[1], q)
       /\ \/ e[1] < f[1]
          \/ e[1] = f[1] /\ e[2] <= f[2]

\* index.search(query, k): the k nearest entries in ascending distance.  When
\* the index holds fewer than k entries the remaining slots carry the label
\* -1 and the distance FLT_MAX; they are all alike and the caller keys its
\* dicts and its set by the label, so one such slot stands for all of them.
\* (Here and below a value that is used several times is bound once, as the
\* element of a singleton set: CHOOSE r \in {F(v) : v \in {value}} : TRUE.)
RECURSIVE Nearest(_, _, _, _)
Nearest(entries, space, q, k) ==
    IF k = 0 THEN <<>>
    ELSE IF entries = {}
    THEN <<[id |-> NotFound, distance |-> FLT_MAX]>>
    ELSE CHOOSE result \in
             {<<[id |-> e[1], distance |-> DistanceOf(space, e[1], q)]>>
              \o Nearest(entries \ {e}, space, q, k - 1) :
                  e \in {n \in entries :
                            \A f \in entries : Nearer(space, q, n, f)}} : TRUE

index_search(index, space, q, k) == Nearest(Entries(index), space, q, k)

\* ------------------------------------------------------------ ScoreFusion
\* None where a score is expected
NoScore == -1

\* get_weighted_score raised TypeError (0.6 * None)
ScoreError == -2

\* lines 284 and 288: 1.0 / (1.0 + distance) in fixed point.  The value is
\* positive for every distance, FLT_MAX included.
SimScale == 1000

Similarity(distance) ==
    (SimScale * Unit * Unit) \div (Unit * Unit + distance) + 1

\* Python truth value of an Optional[float]
Truthy(score) == score # NoScore /\ score # 0

\* get_weighted_score, in tenths: 6 * hpcp_score + 4 * genre_score
HpcpWeight == 6

GenreWeight == 4

get_weighted_score_BothNeeded(hpcp_score, genre_score) ==
    IF hpcp_score = NoScore \/ genre_score = NoScore THEN 0
    ELSE HpcpWeight * hpcp_score + GenreWeight * genre_score

get_weighted_score(hpcp_score, genre_score) ==
    LET first == Truthy(genre_score) /\ hpcp_score = NoScore
        second == ~first /\ Truthy(hpcp_score) /\ genre_score = NoScore
        third == ~first /\ ~second
                 /\ hpcp_score = NoScore /\ genre_score = NoScore
        h == IF first THEN 0 ELSE hpcp_score
        g == IF second THEN 0 ELSE genre_score
    IN  IF third THEN 0
        ELSE IF h = NoScore \/ g = NoScore THEN ScoreError
        ELSE HpcpWeight * h + GenreWeight * g

\* line 309: combined_score *= 1.1, and the score left alone, in hundredths
Boosted_Same(combined_score) == 10 * combined_score

Boosted(combined_score) == 11 * combined_score

Unboosted(combined_score) == 10 * combined_score

\* line 298: f.bpm within 5% of the query bpm
BpmCompatible_NotAbove(bpm, query_bpm) ==
    100 * bpm <= 105 * query_bpm

BpmCompatible(bpm, query_bpm) ==
    /\ 100 * bpm <= 105 * query_bpm
    /\ 100 * bpm >= 95 * query_bpm

\* line 291-292: the iteration order of the set of labels.  CPython walks
\* the hash table by slot; the hash of an integer is its value (-2 for -1)
\* and the table has 8 slots up to 4 elements, 32 above.
Hash(x) == IF x = -1 THEN -2 ELSE x

TableSize(n) == IF n < 5 THEN 8 ELSE 32

RECURSIVE IterationOrder(_, _)
IterationOrder(S, size) ==
    IF S = {} THEN <<>>
    ELSE CHOOSE order \in
             {<<x>> \o IterationOrder(S \ {x}, size) :
                  x \in {z \in S : \A y \in S :
                            \/ Hash(z) % size < Hash(y) % size
                            \/ Hash(z) % size = Hash(y) % size /\ z <= y}} : TRUE

\* line 314: list.sort(key=score, reverse=True), a stable sort
InsertByScore(sorted, e) ==
    LET ahead == Cardinality({i \in 1..Len(sorted) : sorted[i].score >= e.score})
    IN  SubSeq(sorted, 1, ahead) \o <<e>>
        \o SubSeq(sorted, ahead + 1, Len(sorted))

RECURSIVE SortByScore(_, _)
SortByScore(track_scores, sorted) ==
    IF track_scores = <<>> THEN sorted
    ELSE CHOOSE result \in
             {SortByScore(rest, placed) :
                  rest \in {Tail(track_scores)},
                  placed \in {InsertByScore(sorted, Head(track_scores))}} : TRUE

Range(seq) == {seq[i] : i \in 1..Len(seq)}

\* the value a search result gives to label t (the last slot with that
\* label wins in the dict), None when the label is not in the result
RankingOf(result, t) ==
    LET slots == {i \in 1..Len(result) : result[i].id = t}
    IN  IF slots = {} THEN NoScore
        ELSE Similarity(result[CHOOSE i \in slots : \A j \in slots : j <= i].distance)

\* find_similar_tracks_to(track_id=query_id, features=..., num_tracks=...)
\* with track_path None, as every caller uses it.  The result is None (none), or
\* the ranking; searched tells whether the call got to the index searches.
NoRanking(searched) == [none |-> TRUE, searched |-> searched, ranking |-> <<>>]

find_similar_tracks_to(query_id, features, num_tracks) ==
    LET query == IF features = NoFeatures THEN get_feature_by_id(query_id)
                 ELSE features
    IN  IF query_id = NoneId THEN NoRanking(FALSE)
        ELSE IF ~HasMetadata(query_id) THEN NoRanking(FALSE)
        ELSE IF query = NoFeatures THEN NoRanking(FALSE)
        ELSE CHOOSE similar_tracks \in
        {LET labels == {hpcp_result[i].id : i \in 1..Len(hpcp_result)}
                       \cup {genre_result[i].id : i \in 1..Len(genre_result)}
             all_query_ids ==
                 IterationOrder(labels, TableSize(Cardinality(labels)))
             feature_list == get_features_by_ids(labels)
             bpm_compatible_tracks ==
                 {t \in feature_list :
                      BpmCompatible(feature_data[t].bpm, query.bpm)}
             combined(t) == get_weighted_score(RankingOf(hpcp_result, t),
                                               RankingOf(genre_result, t))
             track_scores ==
                 [i \in 1..Len(all_query_ids) |->
                     [id |-> all_query_ids[i],
                      score |-> IF all_query_ids[i] \in bpm_compatible_tracks
                                THEN Boosted(combined(all_query_ids[i]))
                                ELSE Unboosted(combined(all_query_ids[i]))]]
         IN  IF feature_list = {} THEN NoRanking(TRUE)
             ELSE IF \E t \in labels : combined(t) = ScoreError
             THEN NoRanking(TRUE)
             ELSE [none |-> FALSE, searched |-> TRUE,
                   ranking |-> SortByScore(track_scores, <<>>)] :
             hpcp_result \in {index_search(hpcp_index, "hpcp", query.hpcp,
                                           num_tracks)},
             genre_result \in {index_search(genre_index, "genre", query.genre,
                                            num_tracks)}} : TRUE

\* -------------------------------------------------------------- playlists
\* a local variable that was never assigned
Unbound == -3

\* What a playlist operation hands back: status "ok" with the playlist,
\* "none" for a None return, "raised" for an exception that leaves the
\* operation.  searches counts the find_similar_tracks_to calls that got to
\* the index, found the steps at which a ranked candidate was eligible,
\* steps the iterations of the walk's loop that were begun.  log keeps, for
\* every iteration that got to its search, the playlist before it, the ids
\* the search returned in ranking order, and what the iteration appended
\* (None if nothing).  progress lists the progress callbacks made:
\* TrackSimilarity takes no callback and its operations invoke none.
NoPlaylist(status, searches) ==
    [status |-> status, playlist |-> <<>>, searches |-> searches, found |-> 0,
     steps |-> 0, log |-> <<>>, progress |-> <<>>]

\* the ids of a ranking, in its order (none for a None result)
RankedIds(similar_tracks) ==
    [j \in 1..Len(similar_tracks.ranking) |-> similar_tracks.ranking[j].id]

\* index of the first entry of a ranking whose id is not excluded, 0 if none
FirstNotIn(ranking, excluded) ==
    LET eligible == {i \in 1..Len(ranking) : ranking[i].id \notin excluded}
    IN  IF eligible = {} THEN 0
        ELSE CHOOSE i \in eligible : \A j \in eligible : i <= j

\* lines 41 and 112: an endpoint without a track id
EndpointUnresolved(source_track_id, destination_track_id) ==
    source_track_id = NoneId \/ destination_track_id = NoneId

\* lines 49 and 119: an endpoint without features
FeaturesMissing_Unchecked(source_features, dest_features) == FALSE

FeaturesMissing(source_features, dest_features) ==
    source_features = NoFeatures \/ dest_features = NoFeatures

\* line 160: int(50 + 50 * (1 - step / (num_tracks + 1)))
search_size_Growing(step, num_tracks) ==
    50 + (50 * step) \div (num_tracks + 1)

search_size(step, num_tracks) ==
    50 + (50 * (num_tracks + 1 - step)) \div (num_tracks + 1)

\* lines 143-150 in one coordinate: a move of the given magnitude from
\* current toward dest (none when they coincide)
Advance(current, dest, magnitude) ==
    IF dest > current THEN current + magnitude
    ELSE IF dest < current THEN current - magnitude
    ELSE current

\* lines 134-191: the steps of create_playlist_include_track_direction from
\* step on.  best_track_id is not reset between steps and is unbound before
\* the first assignment.
RECURSIVE direction_loop(_, _, _, _, _, _)
direction_loop(step, num_tracks, source_features, dest_features, destination_track_id, w) ==
    IF step > num_tracks THEN w
    ELSE IF get_feature_by_id(w.current) = NoFeatures
    THEN [w EXCEPT !.status = "raised", !.steps = @ + 1]
    ELSE
    LET current_features == get_feature_by_id(w.current)
        hpcp_step == Abs(dest_features.hpcp - source_features.hpcp)
                     \div num_tracks
        genre_step == Abs(dest_features.genre - source_features.genre)
                      \div num_tracks
        target_features ==
            [hpcp |-> Advance(current_features.hpcp, dest_features.hpcp,
                              hpcp_step),
             bpm |-> current_features.bpm,
             genre |-> Advance(current_features.genre, dest_features.genre,
                               genre_step)]
        size == search_size(step, num_tracks)
    IN  CHOOSE walk \in
        {LET similar_tracks == IF first.none THEN second ELSE first
             searches == w.searches
                         + (IF first.searched THEN 1 ELSE 0)
                         + (IF first.none /\ second.searched THEN 1 ELSE 0)
             i == FirstNotIn(similar_tracks.ranking,
                             Range(w.playlist) \cup {destination_track_id})
             best_track_id == IF i = 0 THEN w.best
                              ELSE similar_tracks.ranking[i].id
             entry(placed) ==
                 [before |-> w.playlist, first |-> RankedIds(first),
                  wider |-> RankedIds(second), retried |-> first.none,
                  placed |-> placed]
         IN  IF similar_tracks.none
             THEN [w EXCEPT !.searches = searches, !.steps = @ + 1,
                            !.log = Append(@, entry(NoneId))]
             ELSE IF best_track_id = Unbound
             THEN [w EXCEPT !.status = "raised", !.searches = searches,
                            !.steps = @ + 1,
                            !.log = Append(@, entry(NoneId))]
             ELSE CHOOSE rest \in
                 {direction_loop(step + 1, num_tracks, source_features,
                                 dest_features, destination_track_id, next) :
                      next \in {[w EXCEPT
                                    !.playlist = Append(@, best_track_id),
                                    !.current = best_track_id,
                                    !.best = best_track_id,
                                    !.searches = searches,
                                    !.found = IF i = 0 THEN @ ELSE @ + 1,
                                    !.steps = @ + 1,
                                    !.log = Append(@, entry(best_track_id))]}} :
                 TRUE :
             first \in {find_similar_tracks_to(w.current, target_features,
                                               size)},
             second \in {find_similar_tracks_to(w.current, target_features,
                                                size * 2)}} : TRUE

\* the walk before its first step
WalkFrom(source_track_id) ==
    [status |-> "ok", playlist |-> <<source_track_id>>,
     current |-> source_track_id, best |-> Unbound, searches |-> 0,
     found |-> 0, steps |-> 0, log |-> <<>>]

ResultOf(w) ==
    [status |-> w.status,
     playlist |-> IF w.status = "ok" THEN w.playlist ELSE <<>>,
     searches |-> w.searches, found |-> w.found, steps |-> w.steps,
     log |-> w.log, progress |-> <<>>]

\* create_playlist_include_track_direction
create_playlist_include_track_direction(source_track_path, destination_track_path, num_tracks) ==
    LET source_track_id == get_track_id_by_path(source_track_path)
        destination_track_id == get_track_id_by_path(destination_track_path)
        source_features == get_feature_by_id(source_track_id)
        dest_features == get_feature_by_id(destination_track_id)
    IN  IF EndpointUnresolved(source_track_id, destination_track_id)
        THEN NoPlaylist("none", 0)
        ELSE IF FeaturesMissing(source_features, dest_features)
        THEN NoPlaylist("none", 0)
        ELSE CHOOSE result \in
        {IF w.status = "ok" /\ destination_track_id \notin Range(w.playlist)
         THEN ResultOf([w EXCEPT !.playlist = Append(@, destination_track_id)])
         ELSE ResultOf(w) :
             w \in {direction_loop(1, num_tracks, source_features,
                                   dest_features, destination_track_id,
                                   WalkFrom(source_track_id))}} : TRUE

INTERPOLATE_MODE_LINEAR == 0

INTERPOLATE_MODE_GRADIENT == 1

\* lines 58-67 in one coordinate: from + alpha * (to - from) with
\* alpha = step / (num_tracks + 1)
Interpolated_ByCount(from, to, step, num_tracks) ==
    from + ((to - from) * step) \div (IF num_tracks = 0 THEN 1 ELSE num_tracks)

Interpolated(from, to, step, num_tracks) ==
    from + ((to - from) * step) \div (num_tracks + 1)

\* lines 57-99: the steps of create_playlist_gradient from step on
RECURSIVE gradient_loop(_, _, _, _, _, _)
gradient_loop(step, num_tracks, mode, source_features, target_features, w) ==
    IF step > num_tracks THEN w
    ELSE IF get_feature_by_id(w.current) = NoFeatures
    THEN [w EXCEPT !.status = "raised", !.steps = @ + 1]
    ELSE
    LET current_features == get_feature_by_id(w.current)
        from == IF mode = INTERPOLATE_MODE_LINEAR THEN source_features
                ELSE current_features
        target_point ==
            [hpcp |-> Interpolated(from.hpcp, target_features.hpcp, step,
                                   num_tracks),
             bpm |-> current_features.bpm,
             genre |-> Interpolated(from.genre, target_features.genre, step,
                                    num_tracks)]
    IN  CHOOSE walk \in
        {LET searches == w.searches + (IF similar_tracks.searched THEN 1 ELSE 0)
             i == FirstNotIn(similar_tracks.ranking, Range(w.playlist))
             entry(placed, current_track_id) ==
                 [before |-> w.playlist, first |-> RankedIds(similar_tracks),
                  placed |-> placed, current_before |-> w.current,
                  current_after |-> current_track_id,
                  target |-> target_point]
         IN  CHOOSE rest \in
             {gradient_loop(step + 1, num_tracks, mode, source_features,
                            target_features, next) :
                  next \in {IF similar_tracks.none \/ i = 0
                            THEN [w EXCEPT
                                     !.searches = searches,
                                     !.steps = @ + 1,
                                     !.log = Append(@, entry(NoneId, w.current))]
                            ELSE [w EXCEPT
                                     !.playlist =
                                         Append(@, similar_tracks.ranking[i].id),
                                     !.current = similar_tracks.ranking[i].id,
                                     !.searches = searches,
                                     !.found = @ + 1,
                                     !.steps = @ + 1,
                                     !.log = Append(@, entry(
                                                 similar_tracks.ranking[i].id,
                                                 similar_tracks.ranking[i].id))]}} :
             TRUE :
             similar_tracks \in {find_similar_tracks_to(w.current,
                                                        target_point, 50)}} : TRUE

\* create_playlist_gradient
create_playlist_gradient(source_track_path, destination_track_path, num_tracks, mode) ==
    LET source_track_id == get_track_id_by_path(source_track_path)
        destination_track_id == get_track_id_by_path(destination_track_path)
        source_features == get_feature_by_id(source_track_id)
        target_features == get_feature_by_id(destination_track_id)
    IN  IF EndpointUnresolved(source_track_id, destination_track_id)
        THEN NoPlaylist("none", 0)
        ELSE IF FeaturesMissing(source_features, target_features)
        THEN NoPlaylist("none", 0)
        ELSE ResultOf(gradient_loop(1, num_tracks, mode, source_features,
                                    target_features,
                                    WalkFrom(source_track_id)))

\* lines 205-213: the segments of create_playlist_multitrack_interpolate from
\* segment i on.  full records that every segment so far came back with a
\* candidate found at each of its steps.
RECURSIVE interpolate_segments(_, _, _, _)
interpolate_segments(track_paths, i, num_tracks_between, acc) ==
    IF i > Len(track_paths) - 1 THEN acc
    ELSE
    CHOOSE result \in
    {LET searches == acc.searches + segment.searches
     IN  IF segment.status = "raised"
         THEN [acc EXCEPT !.status = "raised", !.searches = searches,
                          !.full = FALSE]
         ELSE CHOOSE rest \in
             {interpolate_segments(track_paths, i + 1, num_tracks_between,
                                   next) :
                  next \in {IF segment.status = "none"
                            THEN [acc EXCEPT !.full = FALSE]
                            ELSE [acc EXCEPT
                                     !.playlist =
                                         @ \o SubSeq(segment.playlist, 1,
                                                     Len(segment.playlist) - 1),
                                     !.searches = searches,
                                     !.found = @ + segment.found,
                                     !.full = @ /\ segment.found
                                                   = num_tracks_between]}} :
             TRUE :
         segment \in {create_playlist_include_track_direction(
                          track_paths[i], track_paths[i + 1],
                          num_tracks_between)}} : TRUE

\* create_playlist_multitrack_interpolate
create_playlist_multitrack_interpolate(track_paths, num_tracks_between) ==
    LET final_track == get_track_id_by_path(track_paths[Len(track_paths)])
    IN  IF Len(track_paths) < 2
        THEN [status |-> "none", playlist |-> <<>>, searches |-> 0,
              found |-> 0, full |-> FALSE]
        ELSE CHOOSE result \in
        {IF acc.status = "raised" THEN [acc EXCEPT !.playlist = <<>>]
         ELSE [acc EXCEPT !.playlist = Append(@, final_track)] :
             acc \in {interpolate_segments(
                          track_paths, 1, num_tracks_between,
                          [status |-> "ok", playlist |-> <<>>, searches |-> 0,
                           found |-> 0, full |-> TRUE])}} : TRUE

\* line 241: a neighbour is appended if it is not the input track and not in
\* the playlist
IsNewNeighbour_NotInput(similar_track_id, input_id, playlist) ==
    similar_track_id # input_id

IsNewNeighbour(similar_track_id, input_id, playlist) ==
    similar_track_id # input_id /\ similar_track_id \notin Range(playlist)

\* lines 225-242: the input tracks of create_playlist_multitrack_related
\* from track i on.  log keeps, for every input track that got a ranking,
\* the playlist before the track, the ids of its ranking in order and the
\* neighbours appended for it.
RECURSIVE related_tracks(_, _, _, _)
related_tracks(track_paths, i, num_tracks_per_track, acc) ==
    IF i > Len(track_paths) THEN acc
    ELSE
    LET input_id == get_track_id_by_path(track_paths[i])
    IN  CHOOSE result \in
        {LET searches == acc.searches
                         + (IF similar_tracks.searched THEN 1 ELSE 0)
             with_track == Append(acc.playlist, input_id)
             ids == [j \in 1..Len(similar_tracks.ranking) |->
                        similar_tracks.ranking[j].id]
             IsNew(similar_track_id) ==
                 IsNewNeighbour(similar_track_id, input_id, with_track)
         IN  CHOOSE rest \in
             {related_tracks(track_paths, i + 1, num_tracks_per_track, next) :
                  next \in {IF input_id = NoneId THEN acc
                            ELSE IF similar_tracks.none
                            THEN [acc EXCEPT !.searches = searches]
                            ELSE [acc EXCEPT
                                     !.playlist =
                                         with_track \o SelectSeq(ids, IsNew),
                                     !.searches = searches,
                                     !.found = @ + 1,
                                     !.log = Append(@,
                                         [input |-> input_id,
                                          before |-> acc.playlist,
                                          ranked |-> ids,
                                          appended |->
                                              SelectSeq(ids, IsNew)])]}} :
             TRUE :
             similar_tracks \in {find_similar_tracks_to(
                                     input_id, NoFeatures,
                                     num_tracks_per_track)}} : TRUE

\* create_playlist_multitrack_related
create_playlist_multitrack_related(track_paths, num_tracks_per_track) ==
    IF Len(track_paths) = 0 THEN NoPlaylist("none", 0)
    ELSE related_tracks(track_paths, 1, num_tracks_per_track,
                        [status |-> "ok", playlist |-> <<>>, searches |-> 0,
                         found |-> 0, log |-> <<>>])

\* ------------------------------------------------ the playlist operations
\* A call on the UI thread while no scan runs: it reads the store and the
\* indexes and writes neither, so its result is the same whatever calls
\* came before it.
\* a call that indexes the complete rows again, as index_features would
Query_Indexing(c) ==
    /\ pc = "idle"
    /\ call' = c
    /\ hpcp_index' = HpcpAfterAdd(hpcp_index, IdsOf(hpcp_index))
    /\ genre_index' = GenreAfterAdd(genre_index, IdsOf(genre_index))
    /\ UNCHANGED <<track_metadata, track_features,
                   pc, final, track_list, batch_size, futures,
                   current_feature_batch, track_id, successful_tracks, errors,
                   successful_files, flush_sizes, flushed, stored_new,
                   upsert_called, pre, search_at, feature_data>>

Query(c) ==
    /\ pc = "idle"
    /\ call' = c
    /\ UNCHANGED <<track_metadata, track_features, hpcp_index, genre_index,
                   pc, final, track_list, batch_size, futures,
                   current_feature_batch, track_id, successful_tracks, errors,
                   successful_files, flush_sizes, flushed, stored_new,
                   upsert_called, pre, search_at, feature_data>>

\* DirectionalStepWalk
Direction(source, destination, n) ==
    Query([op |-> "direction", source |-> source,
           destination |-> destination, num_tracks |-> n,
           result |-> create_playlist_include_track_direction(
                          source, destination, n)])

\* LinearInterpolationWalk
Gradient(source, destination, n, mode) ==
    Query([op |-> "gradient", source |-> source, destination |-> destination,
           num_tracks |-> n, mode |-> mode,
           result |-> create_playlist_gradient(source, destination, n, mode)])

\* MultiTrackStitch
MultitrackInterpolate(track_paths, n) ==
    Query([op |-> "multitrack_interpolate", track_paths |-> track_paths,
           num_tracks |-> n,
           result |-> create_playlist_multitrack_interpolate(track_paths, n)])

\* MultiTrackUnion; with one input track, NearestNeighborFanout
MultitrackRelated(track_paths, k) ==
    Query([op |-> "multitrack_related", track_paths |-> track_paths,
           num_tracks |-> k,
           result |-> create_playlist_multitrack_related(track_paths, k)])

\* a ScoreFusion query for a stored track
FindSimilar(t, k) ==
    Query([op |-> "find_similar", query_id |-> t, num_tracks |-> k,
           result |-> find_similar_tracks_to(t, NoFeatures, k)])

\* The library of the playlist specifications: QueryTracks files with a row
\* in track_metadata and complete features, except that the first may have
\* no features or a row without genre_data; path 0 resolves to no track.
QueryLibrary == 1..QueryTracks

QueryPaths == 0..QueryTracks

QueryStores ==
    {rows \in StoresOf(QueryLibrary) :
        \A p \in QueryLibrary \ {1} : rows[TrackIdOf(p)] = "complete"}

InitQuery ==
    \E rows \in QueryStores, data \in FeatureLayouts(QueryLibrary) :
        InitOf(QueryLibrary, rows, data)

\* The input tracks of a multi-track playlist: the path without a row, the
\* track that may be without features and a track with features, in lists
\* of up to MaxInputs.
InputPaths == {0, 1, 2}

TrackPathLists == UNION {[1..m -> InputPaths] : m \in 0..MaxInputs}

\* The operations with any arguments.  call records one call, the first of
\* the behaviour.
DirectionAny ==
    /\ call = NoCall
    /\ \E source \in QueryPaths, destination \in QueryPaths, n \in 0..MaxSteps :
        Direction(source, destination, n)

GradientAny ==
    /\ call = NoCall
    /\ \E source \in QueryPaths, destination \in QueryPaths, n \in 0..MaxSteps,
       mode \in {INTERPOLATE_MODE_LINEAR, INTERPOLATE_MODE_GRADIENT} :
        Gradient(source, destination, n, mode)

MultitrackInterpolateAny ==
    /\ call = NoCall
    /\ \E track_paths \in TrackPathLists, n \in 0..MaxSteps :
        MultitrackInterpolate(track_paths, n)

MultitrackRelatedAny ==
    /\ call = NoCall
    /\ \E track_paths \in TrackPathLists, k \in 1..MaxK :
        MultitrackRelated(track_paths, k)

FindSimilarAny ==
    /\ call = NoCall
    /\ \E p \in QueryLibrary, k \in 1..MaxK : FindSimilar(TrackIdOf(p), k)

\* the two walks
NextWalk ==
    \/ DirectionAny
    \/ GradientAny

SpecWalk == InitQuery /\ [][NextWalk]_vars

\* the multi-track playlists
NextMulti ==
    \/ MultitrackInterpolateAny
    \/ MultitrackRelatedAny

SpecMulti == InitQuery /\ [][NextMulti]_vars

\* ScoreFusion queries
NextFusion == FindSimilarAny

SpecFusion == InitQuery /\ [][NextFusion]_vars

\* line 276 in a find_similar_tracks_to(track_id=t) call: the search of the
\* chroma index with the stored hpcp vector of track t itself
HpcpSearch(t, k) ==
    /\ HasMetadata(t)
    /\ get_feature_by_id(t) # NoFeatures
    /\ Query([op |-> "hpcp_search", query_id |-> t, num_tracks |-> k,
              result |-> index_search(hpcp_index, "hpcp",
                                      get_feature_by_id(t).hpcp, k)])

HpcpSearchAny ==
    /\ call = NoCall
    /\ \E p \in QueryLibrary, k \in 1..MaxK : HpcpSearch(TrackIdOf(p), k)

NextSearch == HpcpSearchAny

SpecSearch == InitQuery /\ [][NextSearch]_vars

\* One call of Database.get_missing_features, with any list of track ids.
MissingFeatures(track_ids) ==
    Query([op |-> "get_missing_features", track_ids |-> track_ids,
           missing |-> get_missing_features(track_ids)[1],
           complete |-> get_missing_features(track_ids)[2]])

MissingFeaturesAny ==
    /\ call = NoCall
    /\ \E track_ids \in SUBSET TrackIds : MissingFeatures(track_ids)

NextMissing == MissingFeaturesAny

SpecMissing == Init /\ [][NextMissing]_vars

\* find_features_of_list lines 93-96 and 134-135: the progress callbacks of a
\* run whose loop goes over total futures and which returns, with a callback
\* set.  i counts the futures from 0; item is the number of the future the
\* callback was made at (the last one for the callback after the loop).
ProgressEvery == 10

RECURSIVE progress_loop(_, _, _)
progress_loop(i, total, progress) ==
    IF i >= total
    THEN Append(progress, [item |-> total, current |-> total, total |-> total])
    ELSE progress_loop(i + 1, total,
                       IF i % ProgressEvery = 0
                       THEN Append(progress, [item |-> i + 1, current |-> i,
                                              total |-> total])
                       ELSE progress)

ExtractionProgress(total) ==
    Query([op |-> "extraction_progress", total |-> total,
           progress |-> progress_loop(0, total, <<>>)])

\* Long runs and long walks.  The files of the library are copies of one
\* recording, so that the synthetic targets of a walk are exact for any
\* number of steps.
SameFeatures == FeaturesOf(QueryLibrary, [p \in QueryLibrary |-> 0], FALSE)

InitProgress ==
    \E rows \in QueryStores : InitOf(QueryLibrary, rows, SameFeatures)

ExtractionProgressAny ==
    /\ call = NoCall
    /\ \E total \in 1..MaxItems : ExtractionProgress(total)

DirectionLong ==
    /\ call = NoCall
    /\ \E source \in QueryPaths, destination \in QueryPaths, n \in 0..MaxItems :
        Direction(source, destination, n)

GradientLong ==
    /\ call = NoCall
    /\ \E source \in QueryPaths, destination \in QueryPaths, n \in 0..MaxItems,
       mode \in {INTERPOLATE_MODE_LINEAR, INTERPOLATE_MODE_GRADIENT} :
        Gradient(source, destination, n, mode)

NextProgress ==
    \/ ExtractionProgressAny
    \/ DirectionLong
    \/ GradientLong

SpecProgress == InitProgress /\ [][NextProgress]_vars

\* A library of WideTracks tracks, all with complete features: a
\* DirectionalStepWalk between two of them has two further tracks to place.
WideLibrary == 1..WideTracks

WideStore ==
    [t \in TrackIds |-> IF PathOfId(t) \in WideLibrary THEN "complete"
                        ELSE "none"]

InitWide ==
    \E data \in FeatureLayouts(WideLibrary) :
        InitOf(WideLibrary, WideStore, data)

DirectionWide ==
    /\ call = NoCall
    /\ \E source \in WideLibrary, destination \in WideLibrary,
          n \in 1..MaxSteps :
        Direction(source, destination, n)

NextDirection == DirectionWide

SpecDirection == InitWide /\ [][NextDirection]_vars

\* ScoreFusion over a library in which the timbre coordinate of a file is
\* its chroma coordinate or that of the next file (the first after the
\* last), so that the two index searches of one query can return different
\* tracks.  The first track has complete features or no row (a row without
\* genre_data leaves both indexes empty); the width goes up to the number of
\* tracks, which is more than the index holds when the first track has no
\* row.
ShiftedFeatures(lib, a, shifted) ==
    [t \in TrackIds |->
        LET p == PathOfId(t)
            next == (p % Cardinality(lib)) + 1
        IN  [hpcp |-> Unit * (IF p \in lib THEN a[p] ELSE 0),
             bpm |-> TempoOf(p),
             genre |-> Unit * (IF p \notin lib THEN 0
                               ELSE IF shifted THEN a[next] ELSE a[p])]]

RankingStores == {rows \in QueryStores : rows[TrackIdOf(1)] # "partial"}

InitRanking ==
    \E rows \in RankingStores, a \in [QueryLibrary -> 0..MaxPos],
       shifted \in BOOLEAN :
        InitOf(QueryLibrary, rows, ShiftedFeatures(QueryLibrary, a, shifted))

FindSimilarWide ==
    /\ call = NoCall
    /\ \E p \in QueryLibrary, k \in 1..QueryTracks :
        FindSimilar(TrackIdOf(p), k)

NextRanking == FindSimilarWide

SpecRanking == InitRanking /\ [][NextRanking]_vars

\* The search widths of a DirectionalStepWalk of num_tracks steps, as line
\* 160 computes them at steps 1..num_tracks, looked at from one of its steps.
SearchSizes(step, num_tracks) ==
    Query([op |-> "search_size", step |-> step, num_tracks |-> num_tracks,
           sizes |-> [s \in 1..num_tracks |-> search_size(s, num_tracks)]])

SearchSizesAny ==
    /\ call = NoCall
    /\ \E num_tracks \in 1..MaxWalk :
          \E step \in 1..num_tracks : SearchSizes(step, num_tracks)

NextWidth == SearchSizesAny

SpecWidth == InitAdd /\ [][NextWidth]_vars

\* MultiTrackUnion in the library of WideTracks tracks, for an input track
\* alone or followed by a later input track (the same track or another), with
\* any width up to the number of tracks: a ranking can then hold two tracks
\* to append besides one that is already in the playlist.
UnionPathLists == UNION {[1..m -> WideLibrary] : m \in {1, 2}}

MultitrackRelatedWide ==
    /\ call = NoCall
    /\ \E track_paths \in UnionPathLists, k \in 1..WideTracks :
        MultitrackRelated(track_paths, k)

NextUnion == MultitrackRelatedWide

SpecUnion == InitWide /\ [][NextUnion]_vars

\* Every PlaylistGenerator operation and the ScoreFusion query, over the
\* stores of the playlist specifications and the layouts in which the two
\* spaces hold the same coordinates (mirroring one space changes no distance).
InitPlaylists ==
    \E rows \in QueryStores, a \in [QueryLibrary -> 0..MaxPos] :
        InitOf(QueryLibrary, rows, FeaturesOf(QueryLibrary, a, FALSE))

NextPlaylists ==
    \/ DirectionAny
    \/ GradientAny
    \/ MultitrackInterpolateAny
    \/ MultitrackRelatedAny
    \/ FindSimilarAny

SpecPlaylists == InitPlaylists /\ [][NextPlaylists]_vars

\* get_weighted_score and the tempo boost as functions of the similarities
Scores == {NoScore} \cup 1..MaxSim

WeightedScore(a, b) ==
    Query([op |-> "weighted_score", a |-> a, b |-> b,
           score_a |-> get_weighted_score(a.hpcp, a.genre),
           score_b |-> get_weighted_score(b.hpcp, b.genre),
           boosted_a |-> Boosted(get_weighted_score(a.hpcp, a.genre)),
           unboosted_a |-> Unboosted(get_weighted_score(a.hpcp, a.genre))])

WeightedScoreAny ==
    /\ call = NoCall
    /\ \E a \in [hpcp : Scores, genre : Scores],
          b \in [hpcp : Scores, genre : Scores] : WeightedScore(a, b)

NextScore == WeightedScoreAny

SpecScore == InitAdd /\ [][NextScore]_vars

\* ------------------------------------------------------------- properties
CompleteIds == {t \in TrackIds : track_features[t] = "complete"}

\* ids of the run's resolved references, and those complete when it began
MappedIds == {TrackIdOf(p) : p \in track_list \cap track_metadata}

PreComplete == {t \in MappedIds : pre.store[t] = "complete"}

InRun == pc \in {"loop", "insert", "add_hpcp", "add_genre"}

Returned == pc = "done"

HasError(kind, p) ==
    \E i \in 1..Len(errors) : errors[i].kind = kind /\ errors[i].ref = p

\* C1: in every reachable state (also after a failed upsert and after a
\* crash between the steps of a flush) the ids of the chroma index and the ids of
\* the timbre index are each a subset of the ids with a complete row in the
\* store.  (_store_batch calls index_features whatever batch_insert_features
\* returned, so a failed upsert leaves indexed ids without a row.)
C1_IndexWithinStore ==
    /\ IdsOf(hpcp_index) \subseteq CompleteIds
    /\ IdsOf(genre_index) \subseteq CompleteIds

\* C2: in every flush (a full batch or the final partial one) the upsert of the batch is called before any id of the
\* batch is added to either index: a step of the run that adds an id to an
\* index adds only ids already handed to batch_insert_features in the same
\* _store_batch call.
C2_UpsertBeforeIndexAdd ==
    [][pc' # "idle" =>
         \A t \in TrackIds :
            (\/ Occurrences(hpcp_index', t) > Occurrences(hpcp_index, t)
             \/ Occurrences(genre_index', t) > Occurrences(genre_index, t))
            => t \in upsert_called]_vars

\* a run returned after a full batch and a final partial batch were both
\* stored and indexed
C2_Witness ==
    /\ Returned
    /\ Len(flush_sizes) >= 2
    /\ flush_sizes[1] = batch_size
    /\ flush_sizes[Len(flush_sizes)] < batch_size
    /\ BagToSet(flushed) \subseteq IdsOf(hpcp_index) \cap IdsOf(genre_index)

C4_IndexesReconciled ==
    Returned => IdsOf(hpcp_index) = IdsOf(genre_index)

\* a completed run that indexed at least one new id
C4_Witness ==
    /\ Returned
    /\ flush_sizes # <<>>
    /\ IdsOf(hpcp_index) # IdsOf(pre.hpcp)
    /\ IdsOf(genre_index) # IdsOf(pre.genre)

\* C5: the successful-id set extract returns is the union of the ids complete
\* before the run and the ids newly stored during the run.
C5_ReturnsExistingAndStored ==
    Returned => successful_files = PreComplete \cup stored_new

C7_UnresolvedReported ==
    Returned =>
        \A p \in track_list \ track_metadata :
            \E i \in 1..Len(errors) : errors[i].ref = p

\* C8: when extract returns, every file whose extraction returned null or
\* raised has an error entry naming it, and every file whose extraction
\* succeeded is stored and is in both indexes, wherever the failures fell in
\* the completion order.
C8_FailuresDoNotBlock ==
    Returned =>
        \A t \in DOMAIN futures :
            /\ futures[t] = "ok" =>
                  /\ track_features[t] = "complete"
                  /\ BagIn(t, hpcp_index)
                  /\ BagIn(t, genre_index)
            /\ futures[t] = "null" => HasError("no_data", PathOfId(t))
            /\ futures[t] = "exc" => HasError("error", PathOfId(t))

\* a returned run with a null, a raised and a successful extraction
C8_Witness ==
    /\ Returned
    /\ \E t, u, v \in DOMAIN futures :
          /\ futures[t] = "ok"
          /\ futures[u] = "null"
          /\ futures[v] = "exc"
          /\ BagIn(t, hpcp_index)

\* C9: extract never raises.
C9_NeverRaises == pc # "raised"

\* C10: a run of N successful extractions without errors makes ceil(N/B)
\* flushes; all but the last hold B entries, the last holds the remainder,
\* and every extracted file is in exactly one flush.
C10_FlushSizes ==
    (Returned /\ errors = <<>> /\ DOMAIN futures # {}) =>
        LET N == Cardinality(DOMAIN futures)
            B == batch_size
            k == Len(flush_sizes)
        IN  /\ (k - 1) * B < N
            /\ N <= k * B
            /\ \A i \in 1..(k - 1) : flush_sizes[i] = B
            /\ flush_sizes[k] = N - (k - 1) * B
            /\ \A t \in DOMAIN futures : CopiesIn(t, flushed) = 1

\* batch size 2 over 5 files: flushes of 2, 2 and 1
C10_Witness ==
    /\ Returned
    /\ errors = <<>>
    /\ batch_size = 2
    /\ Cardinality(DOMAIN futures) = 5
    /\ flush_sizes = <<2, 2, 1>>

\* a feature_dict in which some vector has not the dimension of its index
Malformed(feature_dict) ==
    \E t \in DOMAIN feature_dict :
        \/ feature_dict[t].hpcp # HPCP_DIMENSION
        \/ feature_dict[t].genre # GENRE_DIMENSION

\* C11: an index_features call in which some vector has not the dimension of
\* its index (12 for hpcp, GENRE_DIMENSION for genre) adds nothing: both
\* indexes hold exactly the entries they held before the call.
C11_RejectedAddKeepsIndexes ==
    (call.op = "index_features" /\ Malformed(call.feature_dict)) =>
        /\ call.status # "added"
        /\ hpcp_index = call.hpcp_before
        /\ genre_index = call.genre_before

\* non-empty indexes were offered a batch whose hpcp vectors all fit and
\* whose genre vectors are one element short, and rejected it
C11_Witness ==
    /\ call.op = "index_features"
    /\ call.status = "rejected"
    /\ hpcp_index # EmptyBag
    /\ genre_index # EmptyBag
    /\ Cardinality(DOMAIN call.feature_dict) >= 2
    /\ \A t \in DOMAIN call.feature_dict :
          /\ call.feature_dict[t].hpcp = HPCP_DIMENSION
          /\ call.feature_dict[t].genre = GENRE_DIMENSION - 1

\* C12: after the startup bootstrap each index holds exactly the ids with a
\* complete row in the store: no incomplete row is indexed, and a row whose
\* genre vector is absent keeps only its own track out of the indexes, not
\* the complete ones.  (get_all_features decodes every row inside one try:
\* the row without genre_data makes it return None, and nothing is indexed.)
C12_BootstrapExact ==
    pc = "idle" =>
        /\ IdsOf(hpcp_index) = CompleteIds
        /\ IdsOf(genre_index) = CompleteIds

\* a path that resolves to a track with complete features
Usable(file_path) ==
    /\ file_path \in track_metadata
    /\ track_features[TrackIdOf(file_path)] = "complete"

\* number of places of a playlist that hold track t
Places(playlist, t) == Cardinality({i \in 1..Len(playlist) : playlist[i] = t})

\* C13: the playlist DirectionalStepWalk returns ends with the destination
\* and holds the destination exactly once, for every source, destination
\* (also source = destination) and n, truncated or not.
C13_DestinationLastOnce ==
    (call.op = "direction" /\ call.result.status = "ok") =>
        LET playlist == call.result.playlist
            destination_track_id == TrackIdOf(call.destination)
        IN  /\ playlist[Len(playlist)] = destination_track_id
            /\ Places(playlist, destination_track_id) = 1

\* C14: the playlist LinearInterpolationWalk returns when every step found a
\* candidate starts with the source, ends with the destination and has
\* n + 2 elements.
C14_GradientEndpointsAndLength ==
    (/\ call.op = "gradient"
     /\ call.result.status = "ok"
     /\ call.result.found = call.num_tracks) =>
        LET playlist == call.result.playlist
        IN  /\ playlist[1] = TrackIdOf(call.source)
            /\ playlist[Len(playlist)] = TrackIdOf(call.destination)
            /\ Len(playlist) = call.num_tracks + 2

\* C15: MultiTrackStitch over k input tracks with n_between steps, every
\* segment placing a candidate at each of its steps, returns
\* (k-1)*(n_between+1) + 1 tracks: input track i at place
\* (i-1)*(n_between+1) + 1, the last input track at the end.
C15_StitchLength ==
    (/\ call.op = "multitrack_interpolate"
     /\ call.result.status = "ok"
     /\ call.result.full) =>
        LET playlist == call.result.playlist
            k == Len(call.track_paths)
            n_between == call.num_tracks
        IN  /\ Len(playlist) = (k - 1) * (n_between + 1) + 1
            /\ \A i \in 1..k :
                  playlist[(i - 1) * (n_between + 1) + 1]
                      = TrackIdOf(call.track_paths[i])

\* C16: LinearInterpolationWalk and DirectionalStepWalk with a source or a
\* destination that has no track id or no stored features return a failure:
\* no playlist, and no index search was made.
C16_EndpointPreconditions ==
    (/\ call.op \in {"direction", "gradient"}
     /\ ~(Usable(call.source) /\ Usable(call.destination))) =>
        /\ call.result.status = "none"
        /\ call.result.playlist = <<>>
        /\ call.result.searches = 0

\* a walk of at least one step from a track with features to a track whose
\* row has no genre vector, in a library whose indexes are not empty, failed
C16_Witness ==
    /\ call.op = "gradient"
    /\ call.num_tracks >= 1
    /\ Usable(call.source)
    /\ call.destination \in track_metadata
    /\ track_features[TrackIdOf(call.destination)] = "partial"
    /\ call.result.status = "none"

\* C17: MultiTrackStitch and MultiTrackUnion with an input track that has no
\* track id or no stored features fail as a whole: no playlist is returned.
C17_MultiTrackPreconditions ==
    (/\ call.op \in {"multitrack_interpolate", "multitrack_related"}
     /\ \E i \in 1..Len(call.track_paths) : ~Usable(call.track_paths[i])) =>
        call.result.status # "ok"

\* C18: NearestNeighborFanout(track, k) returns the track followed by at
\* most k neighbours, none of them the track itself, none twice, in the
\* order of the ranking; with exactly two indexed tracks A and B,
\* NearestNeighborFanout(A, 1) returns A followed by B.  (Stated for indexes
\* that hold the complete tracks of the store.)
C18_Fanout ==
    (/\ call.op = "multitrack_related"
     /\ Len(call.track_paths) = 1
     /\ Usable(call.track_paths[1])
     /\ IdsOf(hpcp_index) = CompleteIds
     /\ IdsOf(genre_index) = CompleteIds) =>
        LET playlist == call.result.playlist
            t == TrackIdOf(call.track_paths[1])
            ranking == find_similar_tracks_to(t, NoFeatures, call.num_tracks).ranking
            RankOf(x) == CHOOSE j \in 1..Len(ranking) : ranking[j].id = x
        IN  /\ call.result.status = "ok"
            /\ Len(playlist) >= 1
            /\ playlist[1] = t
            /\ Len(playlist) <= call.num_tracks + 1
            /\ \A i \in 1..Len(playlist) : Places(playlist, playlist[i]) = 1
            /\ \A i, j \in 2..Len(playlist) :
                  i < j => RankOf(playlist[i]) < RankOf(playlist[j])
            /\ (call.num_tracks = 1 /\ Cardinality(CompleteIds) = 2) =>
                   \E b \in CompleteIds \ {t} : playlist = <<t, b>>

\* C19: a ScoreFusion ranking is in descending order of the fused score, and
\* candidates of equal fused score are in ascending order of their ids.
C19_RankingOrder ==
    (call.op = "find_similar" /\ ~call.result.none) =>
        LET ranking == call.result.ranking
        IN  \A i, j \in 1..Len(ranking) :
               i < j =>
                  \/ ranking[i].score > ranking[j].score
                  \/ /\ ranking[i].score = ranking[j].score
                     /\ ranking[i].id < ranking[j].id

\* a missing similarity counts as 0.0
SimilarityValue(score) == IF score = NoScore THEN 0 ELSE score

\* C20: the fused score does not decrease when the chroma similarity grows
\* with the timbre similarity fixed, nor when the timbre similarity grows
\* with the chroma similarity fixed; and the boosted score of a candidate is
\* strictly greater than its score without the boost.
C20_FusedScoreMonotone ==
    call.op = "weighted_score" =>
        /\ (/\ SimilarityValue(call.a.hpcp) <= SimilarityValue(call.b.hpcp)
            /\ SimilarityValue(call.a.genre) = SimilarityValue(call.b.genre))
              => call.score_a <= call.score_b
        /\ (/\ SimilarityValue(call.a.genre) <= SimilarityValue(call.b.genre)
            /\ SimilarityValue(call.a.hpcp) = SimilarityValue(call.b.hpcp))
              => call.score_a <= call.score_b
        /\ (call.a.hpcp # NoScore \/ call.a.genre # NoScore)
              => call.boosted_a > call.unboosted_a

\* two candidates that differ in the timbre similarity only, the first
\* without a chroma similarity, were scored
C20_Witness ==
    /\ call.op = "weighted_score"
    /\ call.a.hpcp = NoScore
    /\ call.b.hpcp = NoScore
    /\ call.a.genre # NoScore
    /\ call.a.genre < call.b.genre
    /\ call.score_a < call.score_b
    /\ call.boosted_a > call.unboosted_a

\* C21: for every indexed track, a chroma-index search with that track's own
\* chroma vector returns that track as the nearest result, at distance 0.
C21_SelfNearest ==
    (call.op = "hpcp_search" /\ BagIn(call.query_id, hpcp_index)) =>
        /\ call.result[1].distance = 0
        /\ call.result[1].id = call.query_id

\* C21, amended: the nearest result of that search is at distance 0, and it
\* is the track itself whenever no other indexed track has the same chroma
\* vector.
C21_SelfNearestUnlessSameVector ==
    (call.op = "hpcp_search" /\ BagIn(call.query_id, hpcp_index)) =>
        /\ call.result[1].distance = 0
        /\ (\A u \in IdsOf(hpcp_index) \ {call.query_id} :
                feature_data[u].hpcp # feature_data[call.query_id].hpcp)
              => call.result[1].id = call.query_id

\* a track that is not the first entry of the index, and whose chroma vector
\* no other indexed track has, was searched for and came back first
C21_Witness ==
    /\ call.op = "hpcp_search"
    /\ BagIn(call.query_id, hpcp_index)
    /\ \E u \in IdsOf(hpcp_index) : u < call.query_id
    /\ \A u \in IdsOf(hpcp_index) \ {call.query_id} :
          feature_data[u].hpcp # feature_data[call.query_id].hpcp
    /\ call.result[1].id = call.query_id
    /\ call.result[1].distance = 0

ItemsOf(c) == IF c.op = "extraction_progress" THEN c.total ELSE c.result.steps

ProgressOf(c) ==
    IF c.op = "extraction_progress" THEN c.progress ELSE c.result.progress

\* C23: during extraction and during playlist walks the progress callback is
\* invoked at least once in every 10 consecutive processed items, each time
\* with a current that does not exceed the total.
C23_ProgressCadence ==
    call.op \in {"extraction_progress", "direction", "gradient"} =>
        /\ \A j \in 1..(ItemsOf(call) - 9) :
              \E c \in 1..Len(ProgressOf(call)) :
                  ProgressOf(call)[c].item \in j..(j + 9)
        /\ \A c \in 1..Len(ProgressOf(call)) :
              ProgressOf(call)[c].current <= ProgressOf(call)[c].total

\* no id is at two places of the playlist
NoRepeats(playlist) ==
    \A i, j \in 1..Len(playlist) : playlist[i] = playlist[j] => i = j

\* C24: every track a DirectionalStepWalk step places is neither already in
\* the playlist nor the destination; at every step the playlist built so far
\* holds no id twice and does not hold the destination, and the returned
\* playlist holds no id twice and the destination only as its last element.
C24_PlacedTracksAreNew ==
    call.op = "direction" =>
        LET destination_track_id == TrackIdOf(call.destination)
            log == call.result.log
            playlist == call.result.playlist
        IN  /\ \A i \in 1..Len(log) :
                  /\ NoRepeats(log[i].before)
                  /\ destination_track_id \notin Range(log[i].before)
                  /\ log[i].placed # NoneId =>
                        /\ log[i].placed \notin Range(log[i].before)
                        /\ log[i].placed # destination_track_id
            /\ call.result.status = "ok" =>
                  /\ NoRepeats(playlist)
                  /\ \A i \in 1..Len(playlist) :
                        playlist[i] = destination_track_id => i = Len(playlist)

\* the tracks among ids that a DirectionalStepWalk step may place: tracks of
\* the library (the label -1 of an unfilled result slot is no track) that
\* are not in the playlist and are not the destination
Eligible(ids, playlist, destination_track_id) ==
    {t \in Range(ids) : /\ t # NotFound
                        /\ t \notin Range(playlist)
                        /\ t # destination_track_id}

\* a logged step for which neither the search at the configured width nor
\* the search at double the width returns an eligible track
StepExhausted(e, destination_track_id) ==
    /\ Eligible(e.first, e.before, destination_track_id) = {}
    /\ Eligible(e.wider, e.before, destination_track_id) = {}

\* C25: a DirectionalStepWalk step that has no eligible candidate at either
\* width appends nothing and is the last step of the walk, and the call
\* returns, without failing, the tracks placed before that step followed by
\* the destination.
C25_TruncatedAtExhaustedStep ==
    call.op = "direction" =>
        LET destination_track_id == TrackIdOf(call.destination)
            log == call.result.log
        IN  \A i \in 1..Len(log) :
                StepExhausted(log[i], destination_track_id) =>
                    /\ log[i].placed = NoneId
                    /\ i = Len(log)
                    /\ call.result.steps = i
                    /\ call.result.status = "ok"
                    /\ call.result.playlist
                           = Append(log[i].before, destination_track_id)

\* C26: at every DirectionalStepWalk step whose search at the configured
\* width returns no eligible track (no result, or only tracks already placed
\* or the destination), the search at double the width is made.
C26_RetryWhenNothingPlaceable ==
    call.op = "direction" =>
        LET destination_track_id == TrackIdOf(call.destination)
            log == call.result.log
        IN  \A i \in 1..Len(log) :
                Eligible(log[i].first, log[i].before, destination_track_id) = {}
                    => log[i].retried

\* the positions of a ranking that hold a track (not the label -1 of an
\* unfilled result slot) that is not in the playlist
Qualifying(ids, playlist) ==
    {j \in 1..Len(ids) : ids[j] # NotFound /\ ids[j] \notin Range(playlist)}

\* C27: a LinearInterpolationWalk step places the first ranked track that is
\* not in the playlist, so the playlist holds no track id twice; a step with
\* no such track appends nothing and leaves the current-track pointer (and
\* with it the tempo taken from that track) as it was, and every one of the
\* num_tracks steps runs.
C27_GradientStepPlacesFirstNew ==
    (call.op = "gradient" /\ call.result.status # "none") =>
        LET log == call.result.log
        IN  /\ call.result.status = "ok"
            /\ call.result.steps = call.num_tracks
            /\ Len(log) = call.num_tracks
            /\ NoRepeats(call.result.playlist)
            /\ \A i \in 1..Len(log) :
                  LET qualifying == Qualifying(log[i].first, log[i].before)
                  IN  IF qualifying = {}
                      THEN /\ log[i].placed = NoneId
                           /\ log[i].current_after = log[i].current_before
                      ELSE /\ log[i].placed
                                 = log[i].first[CHOOSE j \in qualifying :
                                       \A k \in qualifying : j <= k]
                           /\ log[i].current_after = log[i].placed

\* the tracks a walk placed, in the order of placing (a step that appended
\* nothing, or the label -1, places no track)
RECURSIVE PlacedTracks(_)
PlacedTracks(log) ==
    IF log = <<>> THEN <<>>
    ELSE LET rest == PlacedTracks(Tail(log))
         IN  IF Head(log).placed \in TrackIds THEN <<Head(log).placed>> \o rest
             ELSE rest

\* C28: of two tracks a DirectionalStepWalk places one after the other, the
\* later is at least as close to the destination as the earlier, in chroma
\* space and in timbre space.
C28_NeverFartherFromDestination ==
    (call.op = "direction" /\ call.source # call.destination) =>
        LET dest_features == get_feature_by_id(TrackIdOf(call.destination))
            placed == PlacedTracks(call.result.log)
        IN  \A i \in 1..(Len(placed) - 1) :
                /\ DistanceOf("hpcp", placed[i + 1], dest_features.hpcp)
                       <= DistanceOf("hpcp", placed[i], dest_features.hpcp)
                /\ DistanceOf("genre", placed[i + 1], dest_features.genre)
                       <= DistanceOf("genre", placed[i], dest_features.genre)

\* the two index searches of the find_similar_tracks_to call recorded in call
HpcpResultOf(c) ==
    index_search(hpcp_index, "hpcp", get_feature_by_id(c.query_id).hpcp,
                 c.num_tracks)

GenreResultOf(c) ==
    index_search(genre_index, "genre", get_feature_by_id(c.query_id).genre,
                 c.num_tracks)

LabelsOf(result) == {result[i].id : i \in 1..Len(result)}

\* 0.6 * chroma_similarity + 0.4 * timbre_similarity of candidate t, in
\* tenths, a similarity the candidate does not have counting as 0.0
FusedOf(hpcp_result, genre_result, t) ==
    6 * SimilarityValue(RankingOf(hpcp_result, t))
    + 4 * SimilarityValue(RankingOf(genre_result, t))

\* C29: the ScoreFusion ranking holds exactly the candidates that one or
\* both of the index searches returned (so a candidate returned by one
\* search only is kept, and one returned by neither is not in it), and the
\* score of each is 0.6 * chroma_similarity + 0.4 * timbre_similarity, with
\* or without the tempo boost, a missing similarity taken as 0.0.
C29_OneSidedCandidateKept ==
    (call.op = "find_similar" /\ ~call.result.none) =>
        \A hpcp_result \in {HpcpResultOf(call)},
           genre_result \in {GenreResultOf(call)} :
            LET ranking == call.result.ranking
            IN  /\ LabelsOf(ranking)
                      = LabelsOf(hpcp_result) \cup LabelsOf(genre_result)
                /\ \A i \in 1..Len(ranking) :
                      \E fused \in {FusedOf(hpcp_result, genre_result,
                                            ranking[i].id)} :
                          /\ ranking[i].score \in {10 * fused, 11 * fused}
                          /\ ranking[i].score > 0

\* a ranking that holds a track returned by the timbre search only, and one
\* that holds a track returned by the chroma search only
C29_Witness ==
    /\ call.op = "find_similar"
    /\ ~call.result.none
    /\ \E i \in 1..Len(call.result.ranking) :
          LET t == call.result.ranking[i].id
          IN  /\ t \in TrackIds
              /\ RankingOf(HpcpResultOf(call), t) = NoScore
              /\ RankingOf(GenreResultOf(call), t) # NoScore
              /\ call.result.ranking[i].score > 0

\* the stored tempo of candidate t is within 5% of the query tempo
TempoWithin(t, query_bpm) ==
    /\ t \in TrackIds
    /\ track_features[t] # "none"
    /\ 100 * feature_data[t].bpm <= 105 * query_bpm
    /\ 100 * feature_data[t].bpm >= 95 * query_bpm

\* C30: the ScoreFusion ranking holds each candidate of the two index
\* searches once, whatever the tempos are; the score of a candidate whose
\* tempo is within 5% of the query tempo is 1.1 times its fused score, and
\* the score of every other candidate is its fused score.
C30_TempoOnlyReranks ==
    (call.op = "find_similar" /\ ~call.result.none) =>
        \A hpcp_result \in {HpcpResultOf(call)},
           genre_result \in {GenreResultOf(call)} :
            LET ranking == call.result.ranking
                query_bpm == get_feature_by_id(call.query_id).bpm
            IN  /\ \A t \in LabelsOf(hpcp_result) \cup LabelsOf(genre_result) :
                      Cardinality({i \in 1..Len(ranking) :
                                      ranking[i].id = t}) = 1
                /\ \A i \in 1..Len(ranking) :
                      \E fused \in {FusedOf(hpcp_result, genre_result,
                                            ranking[i].id)} :
                          ranking[i].score
                              = IF TempoWithin(ranking[i].id, query_bpm)
                                THEN 11 * fused ELSE 10 * fused

\* a ranking with a boosted track other than the query track and a track of
\* another tempo, not boosted
C30_Witness ==
    /\ call.op = "find_similar"
    /\ ~call.result.none
    /\ LET ranking == call.result.ranking
           query_bpm == get_feature_by_id(call.query_id).bpm
       IN  \E i, j \in 1..Len(ranking) :
              /\ ranking[i].id \in TrackIds \ {call.query_id}
              /\ TempoWithin(ranking[i].id, query_bpm)
              /\ ranking[i].score
                     = 11 * FusedOf(HpcpResultOf(call), GenreResultOf(call),
                                    ranking[i].id)
              /\ ranking[j].id \in TrackIds
              /\ ~TempoWithin(ranking[j].id, query_bpm)
              /\ ranking[j].score
                     = 10 * FusedOf(HpcpResultOf(call), GenreResultOf(call),
                                    ranking[j].id)
              /\ ranking[j].score > 0

\* C31: in LINEAR mode the search vector of step s of n is
\* source + (s / (n + 1)) * (destination - source) in chroma space and in
\* timbre space, whatever track the walk has reached; for n = 1 it is the
\* midpoint of the source and destination vectors.
C31_LinearTargetFromEndpoints ==
    (call.op = "gradient" /\ call.mode = INTERPOLATE_MODE_LINEAR) =>
        LET source_features == get_feature_by_id(TrackIdOf(call.source))
            target_features == get_feature_by_id(TrackIdOf(call.destination))
            n == call.num_tracks
            log == call.result.log
        IN  \A s \in 1..Len(log) :
                /\ (n + 1) * log[s].target.hpcp
                       = (n + 1 - s) * source_features.hpcp
                         + s * target_features.hpcp
                /\ (n + 1) * log[s].target.genre
                       = (n + 1 - s) * source_features.genre
                         + s * target_features.genre
                /\ n = 1 =>
                      /\ 2 * log[s].target.hpcp
                             = source_features.hpcp + target_features.hpcp
                      /\ 2 * log[s].target.genre
                             = source_features.genre + target_features.genre

\* a LINEAR walk of two steps between tracks of different vectors whose
\* second step starts from a track that is not at the source's position
C31_Witness ==
    /\ call.op = "gradient"
    /\ call.mode = INTERPOLATE_MODE_LINEAR
    /\ call.num_tracks = 2
    /\ Len(call.result.log) = 2
    /\ LET source_features == get_feature_by_id(TrackIdOf(call.source))
           target_features == get_feature_by_id(TrackIdOf(call.destination))
           current == call.result.log[2].current_before
       IN  /\ source_features.hpcp # target_features.hpcp
           /\ current \in TrackIds
           /\ feature_data[current].hpcp # source_features.hpcp
           /\ 3 * call.result.log[2].target.hpcp
                  = source_features.hpcp + 2 * target_features.hpcp

\* C32: the search width of step s of an n-step DirectionalStepWalk is the
\* whole part of 50 + 50 * (1 - s / (n + 1)); it lies between 50 and 100 and
\* is not greater than the width of the step before.
C32_SearchWidthShrinks ==
    call.op = "search_size" =>
        LET n == call.num_tracks
            s == call.step
            size == call.sizes[s]
        IN  /\ (n + 1) * size <= 50 * (n + 1) + 50 * (n + 1 - s)
            /\ 50 * (n + 1) + 50 * (n + 1 - s) < (n + 1) * (size + 1)
            /\ 50 <= size
            /\ size <= 100
            /\ s > 1 => size <= call.sizes[s - 1]

\* the last of ten steps, narrower than the step before it and than the first
C32_Witness ==
    /\ call.op = "search_size"
    /\ call.num_tracks = 10
    /\ call.step = 10
    /\ call.sizes[10] < call.sizes[9]
    /\ call.sizes[9] < call.sizes[1]

\* position of id x in a sequence of distinct ids
PositionIn(ids, x) == CHOOSE j \in 1..Len(ids) : ids[j] = x

\* C33: every neighbour MultiTrackUnion appends for an input track is an id
\* of that track's ranking that was nowhere in the playlist accumulated up to
\* then (the tracks of earlier inputs, the input track, the neighbours
\* appended before it), and the appended neighbours are in the order of the
\* ranking.
C33_NeighbourAppendedOnlyIfNew ==
    (call.op = "multitrack_related" /\ call.result.status = "ok") =>
        LET log == call.result.log
        IN  \A e \in 1..Len(log) :
                LET appended == log[e].appended
                    ranked == log[e].ranked
                IN  /\ \A j \in 1..Len(appended) :
                          /\ appended[j] \in Range(ranked)
                          /\ appended[j] \notin Range(log[e].before)
                          /\ appended[j] # log[e].input
                          /\ appended[j]
                                 \notin Range(SubSeq(appended, 1, j - 1))
                    /\ \A i, j \in 1..Len(appended) :
                          i < j => PositionIn(ranked, appended[i])
                                       < PositionIn(ranked, appended[j])

\* a first input track for which two neighbours were appended, and a second
\* whose ranking holds a neighbour that was skipped because it was in the
\* playlist and one that was appended
C33_Witness ==
    /\ call.op = "multitrack_related"
    /\ call.result.status = "ok"
    /\ Len(call.result.log) = 2
    /\ Len(call.result.log[1].appended) = 2
    /\ LET e == call.result.log[2]
       IN  /\ \E x \in Range(e.ranked) :
                 /\ x # e.input
                 /\ x \in Range(e.before)
                 /\ x \notin Range(e.appended)
           /\ Len(e.appended) = 1
           /\ Range(e.appended) \subseteq TrackIds

\* the ids with a row in the FeatureStore
StoredIds == {t \in TrackIds : track_features[t] # "none"}

\* the ids a call handed back: those of the ranking of a ScoreFusion query,
\* those of the playlist of a PlaylistGenerator operation
ReturnedIds(c) ==
    IF c.op = "find_similar"
    THEN {c.result.ranking[i].id : i \in 1..Len(c.result.ranking)}
    ELSE Range(c.result.playlist)

\* C34: every id of a ScoreFusion ranking and every element of a playlist
\* that a PlaylistGenerator operation returns is the id of a track with a row
\* in the FeatureStore; neither the label -1 of an unfilled search slot nor
\* None is among them.
C34_OnlyStoredTrackIds ==
    call.op \in {"find_similar", "direction", "gradient",
                 "multitrack_interpolate", "multitrack_related"} =>
        /\ ReturnedIds(call) \subseteq StoredIds
        /\ NotFound \notin ReturnedIds(call)
        /\ NoneId \notin ReturnedIds(call)

\* C35: a flush made inside the extraction loop, whatever the outcome of its
\* store write, leaves the batch empty when it ends; and no track id is in
\* the batch of more than one flush of a run.
C35_FlushEmptiesBatch ==
    [][/\ (pc = StoreBatchSteps[Len(StoreBatchSteps)] /\ ~final)
              => current_feature_batch' = {}
       /\ \A t \in TrackIds : CopiesIn(t, flushed') <= 1]_vars

\* C36: in every state of a session (the bootstrap, then extraction runs) the
\* chroma index holds at most one entry for each track id, and so does the
\* timbre index.
C36_OneEntryPerTrack ==
    \A t \in TrackIds :
        /\ Occurrences(hpcp_index, t) <= 1
        /\ Occurrences(genre_index, t) <= 1

\* C37: when extract returns, every file reference of its input is accounted
\* for: the reference's track id is in the returned successful set, or the
\* error list has an entry naming that file.
C37_EveryFileAccountedFor ==
    Returned =>
        \A p \in track_list :
            \/ TrackIdOf(p) \in successful_files
            \/ \E i \in 1..Len(errors) : errors[i].ref = p

\* C38: the playlist MultiTrackUnion returns holds no track id twice, also
\* when a later input track was already appended as a neighbour of an
\* earlier one and when the same track is listed twice in the input.
C38_UnionHasNoRepeats ==
    (call.op = "multitrack_related" /\ call.result.status = "ok")
        => NoRepeats(call.result.playlist)

====
